---- MODULE Spec2Model ----
(***************************************************************************)
(* Model of `shp build run` (pkg/shp/cmd/build/run.go): the RunCommand     *)
(* session state, Run (the orchestrator), and the pod event handler        *)
(* onEvent with tailLogs and stop, under concurrent event delivery.        *)
(*                                                                         *)
(* Text is modelled as a sequence of tokens.  A token is either a single   *)
(* character or a literal chunk that holds no '%'.  Resource names hold    *)
(* no '%' (they are DNS labels); condition messages are free text.         *)
(***************************************************************************)
EXTENDS Integers, Sequences, FiniteSets, TLC

(* ---------------------------------------------------------------- bounds *)
\* number of goroutines that may be inside onEvent at the same time
NumHandlers == 2
\* number of pod events delivered in one session
MaxEvents == 3

Handlers == 1..NumHandlers

(* ------------------------------------------------------ values and input *)
Free == 0
RunOwner == -1

PodRunning == "Running"
PodFailed == "Failed"
PodSucceeded == "Succeeded"
PodPending == "Pending"
PodUnknown == "Unknown"
Phases == {PodPending, PodRunning, PodSucceeded, PodFailed, PodUnknown, ""}

PodInitialized == "Initialized"
ContainersReady == "ContainersReady"
PodScheduled == "PodScheduled"
ConditionUnknown == "Unknown"

NilErr == [nil |-> TRUE, text |-> <<>>]
NewError(t) == [nil |-> FALSE, text |-> t]
GetError == NewError(<<"buildruns not found">>)
SetupError == NewError(<<"no kubeconfig">>)
CreateError == NewError(<<"create refused">>)
WatchError == NewError(<<"watch refused">>)

BuildName == "b"
GeneratedName == "b-x7"
PodName == "p"
Namespace == "ns"

Cond(t, s, m) == [type |-> t, status |-> s, message |-> m]

Pod(ph, sp, cs, d) ==
    [name |-> PodName, namespace |-> Namespace, phase |-> ph, spec |-> sp,
     conditions |-> cs, deleted |-> d]

SpecOne == [initContainers |-> <<"i1">>, containers |-> <<"c1">>]
SpecTwo == [initContainers |-> <<"i1">>, containers |-> <<"c1", "c2">>]
\* a pod specification that names one container twice
SpecRepeat == [initContainers |-> <<"i1">>, containers |-> <<"c1", "c1">>]
CondsReady == <<>>
CondsUnknown ==
    << Cond(PodScheduled, ConditionUnknown, <<"unschedulable">>),
       Cond(ContainersReady, ConditionUnknown, <<"ImagePullBackOff">>),
       Cond(PodInitialized, ConditionUnknown, <<"init failed">>) >>
CondsFalse ==
    << Cond(PodInitialized, "True", <<"ok">>),
       Cond(ContainersReady, "False", <<"ImagePullBackOff">>),
       Cond(PodScheduled, ConditionUnknown, <<"unschedulable">>) >>
CondsPercent == << Cond(PodInitialized, ConditionUnknown, <<"pulled 50", "%">>) >>

\* the observed pods the watcher delivers
Pods ==
    { Pod(PodRunning, SpecOne, CondsReady, FALSE),
      Pod(PodRunning, SpecRepeat, CondsReady, FALSE),
      Pod(PodRunning, SpecTwo, CondsUnknown, TRUE),
      Pod(PodSucceeded, SpecTwo, CondsReady, FALSE),
      Pod(PodFailed, SpecTwo, CondsReady, FALSE),
      Pod(PodFailed, SpecTwo, CondsReady, TRUE),
      Pod(PodPending, SpecTwo, CondsFalse, TRUE),
      Pod(PodUnknown, SpecTwo, CondsUnknown, FALSE),
      Pod("", SpecOne, CondsPercent, FALSE) }

NoPod == [name |-> "", namespace |-> "", phase |-> "",
          spec |-> [initContainers |-> <<>>, containers |-> <<>>],
          conditions |-> <<>>, deleted |-> FALSE]

\* what BuildRuns(ns).Get returns: an error, or the BuildRun's markers
GetResults ==
    { [err |-> GetError, name |-> "", canceled |-> FALSE, deleted |-> FALSE] }
    \cup { [err |-> NilErr, name |-> GeneratedName, canceled |-> c, deleted |-> d] :
             c \in BOOLEAN, d \in BOOLEAN }

NoBuildRun == [err |-> NilErr, name |-> "", canceled |-> FALSE, deleted |-> FALSE]

(* ------------------------------------------------------------ formatting *)
\* fmt.Sprintf / fmt.Fprintf of a format string with NO operands: literal
\* text is copied, "%%" prints "%", a '%' ending the string prints
\* "%!(NOVERB)", and '%' followed by a verb character v prints
\* "%!v(MISSING)".
RECURSIVE FormatNoArgs(_)
FormatNoArgs(f) ==
    IF f = <<>> THEN <<>>
    ELSE IF Head(f) # "%" THEN <<Head(f)>> \o FormatNoArgs(Tail(f))
    ELSE IF Len(f) = 1 THEN <<"%!(NOVERB)">>
    ELSE IF f[2] = "%" THEN <<"%">> \o FormatNoArgs(SubSeq(f, 3, Len(f)))
    ELSE <<"%!", f[2], "(MISSING)">> \o FormatNoArgs(SubSeq(f, 3, Len(f)))

\* %q of a plain string
Quote(s) == <<"\"", s, "\"">>

MsgCanceled(n) == <<"BuildRun '", n, "' has been canceled.\n">>
MsgBuildRunDeleted(n) == <<"BuildRun '", n, "' has been deleted.\n">>
MsgPodDeleted(n) == <<"Pod '", n, "' has been deleted.\n">>
MsgFailed(n) == <<"Pod '", n, "' has failed!\n">>
MsgSucceeded(n) == <<"Pod '", n, "' has succeeded!\n">>
MsgState(n, ph) == <<"Pod '", n, "' is in state ">> \o Quote(ph) \o <<"...\n">>
MsgCreated(n, b) == <<"BuildRun created ">> \o Quote(n) \o <<" for build ">> \o Quote(b) \o <<"\n">>
ErrFailed(n) == NewError(<<"build pod '", n, "' has failed">>)

(* ---------------------------------------------------------------- state *)
VARIABLES
    watchLock,        \* sync.Mutex: Free, RunOwner or the handler holding it
    tailLogsStarted,  \* map[string]bool
    follow,           \* --follow flag
    ioStreams,        \* TRUE once r.ioStreams is assigned
    buildRunName,     \* r.buildRunName
    shpClientset,     \* TRUE once r.shpClientset is assigned
    pw,               \* pod watcher: "nil", "watching", "ended"
    startErr,         \* what pw.Start() returns once the watch has ended
    runPc,            \* position of Run
    runErr,           \* what Run returned
    pc,               \* position of each onEvent invocation
    pod,              \* its argument
    inv,              \* its number, in order of lock acquisition
    br,               \* onEvent: br and err as returned by Get
    idx,              \* tailLogs: index in the range loop
    msg,              \* onEvent: msg
    err,              \* onEvent: err
    delivered,        \* number of events delivered so far
    trace             \* every external effect, in order

vars == <<watchLock, tailLogsStarted, follow, ioStreams, buildRunName,
          shpClientset, pw, startErr, runPc, runErr, pc, pod, inv, br, idx,
          msg, err, delivered, trace>>

session == <<ioStreams, buildRunName, shpClientset>>
locals == <<pod, inv, br, idx, msg, err>>

Init ==
    /\ watchLock = Free
    /\ tailLogsStarted = <<>>
    /\ follow \in BOOLEAN
    /\ ioStreams = FALSE
    /\ buildRunName = ""
    /\ shpClientset = FALSE
    /\ pw = "nil"
    /\ startErr = NilErr
    /\ runPc = "lock"
    /\ runErr = NilErr
    /\ pc = [h \in Handlers |-> "idle"]
    /\ pod = [h \in Handlers |-> NoPod]
    /\ inv = [h \in Handlers |-> 0]
    /\ br = [h \in Handlers |-> NoBuildRun]
    /\ idx = [h \in Handlers |-> 0]
    /\ msg = [h \in Handlers |-> <<>>]
    /\ err = [h \in Handlers |-> NilErr]
    /\ delivered = 0
    /\ trace = <<>>

(* ------------------------------------------------------------------ Run *)
\* variant: Run does not take the mutex
RunLock_Skipped ==
    /\ runPc = "lock"
    /\ runPc' = "create"
    /\ UNCHANGED <<watchLock, tailLogsStarted, follow, session, pw, startErr,
                   runErr, pc, locals, delivered, trace>>

\* r.watchLock.Lock()
RunLock ==
    /\ runPc = "lock"
    /\ watchLock = Free
    /\ watchLock' = RunOwner
    /\ runPc' = "create"
    /\ UNCHANGED <<tailLogsStarted, follow, session, pw, startErr, runErr, pc,
                   locals, delivered, trace>>

\* variant: the follow flag is not tested after Create
RunCreate_IgnoreFollow ==
    /\ runPc = "create"
    /\ \E e \in {NilErr, SetupError, CreateError} :
         IF ~e.nil
         THEN /\ runPc' = "returned"
              /\ runErr' = e
         ELSE /\ runPc' = "setup"
              /\ runErr' = runErr
    /\ UNCHANGED <<watchLock, tailLogsStarted, follow, session, pw, startErr,
                   pc, locals, delivered, trace>>

\* params.ShipwrightClientSet(), BuildRuns(ns).Create, and the follow test
RunCreate ==
    /\ runPc = "create"
    /\ \E e \in {NilErr, SetupError, CreateError} :
         IF ~e.nil
         THEN /\ runPc' = "returned"
              /\ runErr' = e
              /\ trace' = trace
         ELSE IF ~follow
         THEN /\ runPc' = "returned"
              /\ runErr' = NilErr
              /\ trace' = Append(trace, [kind |-> "msg", inv |-> 0,
                                         text |-> MsgCreated(GeneratedName, BuildName)])
         ELSE /\ runPc' = "setup"
              /\ runErr' = runErr
              /\ trace' = trace
    /\ UNCHANGED <<watchLock, tailLogsStarted, follow, session, pw, startErr,
                   pc, locals, delivered>>

\* r.ioStreams .. r.pw.WithOnPodModifiedFn(r.onEvent)
RunSetup ==
    /\ runPc = "setup"
    /\ ioStreams' = TRUE
    /\ \E failAt \in {"ClientSet", "ShipwrightClientSet", "NewPodWatcher", "none"} :
         /\ buildRunName' = IF failAt = "ClientSet" THEN buildRunName ELSE GeneratedName
         /\ shpClientset' = (failAt \in {"NewPodWatcher", "none"})
         /\ pw' = IF failAt = "none" THEN "watching" ELSE pw
         /\ runPc' = IF failAt = "none" THEN "unlock" ELSE "returned"
         /\ runErr' = CASE failAt = "none" -> runErr
                        [] failAt = "NewPodWatcher" -> WatchError
                        [] OTHER -> SetupError
    /\ UNCHANGED <<watchLock, tailLogsStarted, follow, startErr, pc, locals,
                   delivered, trace>>

\* r.watchLock.Unlock()
RunUnlock ==
    /\ runPc = "unlock"
    /\ watchLock' = Free
    /\ runPc' = "start"
    /\ UNCHANGED <<tailLogsStarted, follow, session, pw, startErr, runErr, pc,
                   locals, delivered, trace>>

\* variant: pw.Start() does not block
RunReturn_NoWait ==
    /\ runPc = "start"
    /\ runPc' = "returned"
    /\ runErr' = startErr
    /\ UNCHANGED <<watchLock, tailLogsStarted, follow, session, pw, startErr,
                   pc, locals, delivered, trace>>

\* _, err = r.pw.Start(); return err
RunReturn ==
    /\ runPc = "start"
    /\ pw = "ended"
    /\ runPc' = "returned"
    /\ runErr' = startErr
    /\ UNCHANGED <<watchLock, tailLogsStarted, follow, session, pw, startErr,
                   pc, locals, delivered, trace>>

(* ---------------------------------------------------------- pod watcher *)
\* the watcher calls the registered handler with an observed pod
Deliver(h, p) ==
    /\ pw = "watching"
    /\ pc[h] = "idle"
    /\ \A g \in Handlers : g < h => pc[g] # "idle"
    /\ delivered < MaxEvents
    /\ delivered' = delivered + 1
    /\ pc' = [pc EXCEPT ![h] = "lock"]
    /\ pod' = [pod EXCEPT ![h] = p]
    /\ UNCHANGED <<watchLock, tailLogsStarted, follow, session, pw, startErr,
                   runPc, runErr, inv, br, idx, msg, err, trace>>

(* -------------------------------------------------------------- onEvent *)
NextInv == Cardinality({k \in 1..Len(trace) : trace[k].kind = "enter"}) + 1

\* variant: the handler enters without waiting for the mutex
Lock_NoWait(h) ==
    /\ pc[h] = "lock"
    /\ watchLock' = h
    /\ pc' = [pc EXCEPT ![h] = "switch"]
    /\ inv' = [inv EXCEPT ![h] = NextInv]
    /\ trace' = Append(trace, [kind |-> "enter", inv |-> NextInv,
                               phase |-> pod[h].phase,
                               conditions |-> pod[h].conditions])
    /\ UNCHANGED <<tailLogsStarted, follow, session, pw, startErr, runPc,
                   runErr, pod, br, idx, msg, err, delivered>>

\* r.watchLock.Lock(); defer r.watchLock.Unlock()
Lock(h) ==
    /\ pc[h] = "lock"
    /\ watchLock = Free
    /\ watchLock' = h
    /\ pc' = [pc EXCEPT ![h] = "switch"]
    /\ inv' = [inv EXCEPT ![h] = NextInv]
    /\ trace' = Append(trace, [kind |-> "enter", inv |-> NextInv,
                               phase |-> pod[h].phase,
                               conditions |-> pod[h].conditions])
    /\ UNCHANGED <<tailLogsStarted, follow, session, pw, startErr, runPc,
                   runErr, pod, br, idx, msg, err, delivered>>

\* case corev1.PodRunning: time.Sleep(3 * time.Second)
Sleep(h) ==
    /\ pc[h] = "switch"
    /\ pod[h].phase = PodRunning
    /\ pc' = [pc EXCEPT ![h] = "range"]
    /\ idx' = [idx EXCEPT ![h] = 1]
    /\ UNCHANGED <<watchLock, tailLogsStarted, follow, session, pw, startErr,
                   runPc, runErr, pod, inv, br, msg, err, delivered, trace>>

\* variant: the regular containers are ranged over before the init-containers
ContainersOf_RegularFirst(p) == p.spec.containers \o p.spec.initContainers

\* containers := append(pod.Spec.InitContainers, pod.Spec.Containers...)
ContainersOf(p) == p.spec.initContainers \o p.spec.containers

\* variant: the registry is never consulted
Exists_Never(c) == FALSE

\* _, exists := r.tailLogsStarted[container.Name]
Exists(c) == c \in DOMAIN tailLogsStarted

\* for _, container := range containers { if exists { continue } ...
TailLogsRange(h) ==
    /\ pc[h] = "range"
    /\ IF idx[h] > Len(ContainersOf(pod[h]))
       THEN /\ pc' = [pc EXCEPT ![h] = "return"]
            /\ idx' = idx
       ELSE IF Exists(ContainersOf(pod[h])[idx[h]])
       THEN /\ pc' = pc
            /\ idx' = [idx EXCEPT ![h] = @ + 1]
       ELSE /\ pc' = [pc EXCEPT ![h] = "mark"]
            /\ idx' = idx
    /\ UNCHANGED <<watchLock, tailLogsStarted, follow, session, pw, startErr,
                   runPc, runErr, pod, inv, br, msg, err, delivered, trace>>

\* r.tailLogsStarted[container.Name] = true
TailLogsMark(h) ==
    /\ pc[h] = "mark"
    /\ LET c == ContainersOf(pod[h])[idx[h]]
       IN tailLogsStarted' = [k \in DOMAIN tailLogsStarted \cup {c} |->
                                IF k = c THEN TRUE ELSE tailLogsStarted[k]]
    /\ pc' = [pc EXCEPT ![h] = "start"]
    /\ UNCHANGED <<watchLock, follow, session, pw, startErr, runPc, runErr,
                   locals, delivered, trace>>

\* r.logTail.Start(pod.GetNamespace(), pod.GetName(), container.Name)
TailLogsStart(h) ==
    /\ pc[h] = "start"
    /\ trace' = Append(trace, [kind |-> "tailStart", inv |-> inv[h],
                               namespace |-> pod[h].namespace,
                               pod |-> pod[h].name,
                               container |-> ContainersOf(pod[h])[idx[h]]])
    /\ idx' = [idx EXCEPT ![h] = @ + 1]
    /\ pc' = [pc EXCEPT ![h] = "range"]
    /\ UNCHANGED <<watchLock, tailLogsStarted, follow, session, pw, startErr,
                   runPc, runErr, pod, inv, br, msg, err, delivered>>

\* variant: the observed pod's deletion marker is tested first
Diagnose_PodFirst(p, g) ==
    CASE p.deleted -> [msg |-> MsgPodDeleted(p.name), err |-> g.err]
      [] g.err.nil /\ g.canceled -> [msg |-> MsgCanceled(g.name), err |-> g.err]
      [] g.err.nil /\ g.deleted -> [msg |-> MsgBuildRunDeleted(g.name), err |-> g.err]
      [] OTHER -> [msg |-> MsgFailed(p.name), err |-> ErrFailed(p.name)]

\* variant: the BuildRun's deletion marker is tested before cancellation
Diagnose_DeletedFirst(p, g) ==
    CASE g.err.nil /\ g.deleted -> [msg |-> MsgBuildRunDeleted(g.name), err |-> g.err]
      [] g.err.nil /\ g.canceled -> [msg |-> MsgCanceled(g.name), err |-> g.err]
      [] p.deleted -> [msg |-> MsgPodDeleted(p.name), err |-> g.err]
      [] OTHER -> [msg |-> MsgFailed(p.name), err |-> ErrFailed(p.name)]

\* variant: the observed pod's deletion marker is not consulted
Diagnose_NoPodCase(p, g) ==
    CASE g.err.nil /\ g.canceled -> [msg |-> MsgCanceled(g.name), err |-> g.err]
      [] g.err.nil /\ g.deleted -> [msg |-> MsgBuildRunDeleted(g.name), err |-> g.err]
      [] OTHER -> [msg |-> MsgFailed(p.name), err |-> ErrFailed(p.name)]

\* variant: the pod-deleted case drops the error of the re-fetch
Diagnose_PodCaseNil(p, g) ==
    CASE g.err.nil /\ g.canceled -> [msg |-> MsgCanceled(g.name), err |-> g.err]
      [] g.err.nil /\ g.deleted -> [msg |-> MsgBuildRunDeleted(g.name), err |-> g.err]
      [] p.deleted -> [msg |-> MsgPodDeleted(p.name), err |-> NilErr]
      [] OTHER -> [msg |-> MsgFailed(p.name), err |-> ErrFailed(p.name)]

\* variant: the default case does not assign err
Diagnose_NoErr(p, g) ==
    CASE g.err.nil /\ g.canceled -> [msg |-> MsgCanceled(g.name), err |-> g.err]
      [] g.err.nil /\ g.deleted -> [msg |-> MsgBuildRunDeleted(g.name), err |-> g.err]
      [] p.deleted -> [msg |-> MsgPodDeleted(p.name), err |-> g.err]
      [] OTHER -> [msg |-> MsgFailed(p.name), err |-> g.err]

\* the switch on the re-fetched BuildRun and the observed pod
Diagnose(p, g) ==
    CASE g.err.nil /\ g.canceled -> [msg |-> MsgCanceled(g.name), err |-> g.err]
      [] g.err.nil /\ g.deleted -> [msg |-> MsgBuildRunDeleted(g.name), err |-> g.err]
      [] p.deleted -> [msg |-> MsgPodDeleted(p.name), err |-> g.err]
      [] OTHER -> [msg |-> MsgFailed(p.name), err |-> ErrFailed(p.name)]

\* case corev1.PodFailed: br, err := ...Get(...); switch { ... };
\* fmt.Fprintf(r.ioStreams.Out, msg)
Failed(h) ==
    /\ pc[h] = "switch"
    /\ pod[h].phase = PodFailed
    /\ \E g \in GetResults :
         /\ br' = [br EXCEPT ![h] = g]
         /\ msg' = [msg EXCEPT ![h] = Diagnose(pod[h], g).msg]
         /\ err' = [err EXCEPT ![h] = Diagnose(pod[h], g).err]
         /\ trace' = Append(trace, [kind |-> "msg", inv |-> inv[h],
                                    text |-> FormatNoArgs(Diagnose(pod[h], g).msg)])
    /\ pc' = [pc EXCEPT ![h] = "stop"]
    /\ UNCHANGED <<watchLock, tailLogsStarted, follow, session, pw, startErr,
                   runPc, runErr, pod, inv, idx, delivered>>

\* case corev1.PodSucceeded: fmt.Fprintf(..., "Pod '%s' has succeeded!\n", ...)
Succeeded(h) ==
    /\ pc[h] = "switch"
    /\ pod[h].phase = PodSucceeded
    /\ trace' = Append(trace, [kind |-> "msg", inv |-> inv[h],
                               text |-> MsgSucceeded(pod[h].name)])
    /\ pc' = [pc EXCEPT ![h] = "stop"]
    /\ UNCHANGED <<watchLock, tailLogsStarted, follow, session, pw, startErr,
                   runPc, runErr, locals, delivered>>

\* variant: stop() empties the registry of started tails
Stop_ClearsRegistry(h) ==
    /\ pc[h] = "stop"
    /\ trace' = trace \o << [kind |-> "tailStop", inv |-> inv[h]],
                             [kind |-> "pwStop", inv |-> inv[h]] >>
    /\ pw' = "ended"
    /\ tailLogsStarted' = <<>>
    /\ pc' = [pc EXCEPT ![h] = "return"]
    /\ UNCHANGED <<watchLock, follow, session, startErr, runPc, runErr,
                   locals, delivered>>

\* variant: stop() stops the pod watcher before the log tailer
Stop_WatcherFirst(h) ==
    /\ pc[h] = "stop"
    /\ trace' = trace \o << [kind |-> "pwStop", inv |-> inv[h]],
                             [kind |-> "tailStop", inv |-> inv[h]] >>
    /\ pw' = "ended"
    /\ pc' = [pc EXCEPT ![h] = "return"]
    /\ UNCHANGED <<watchLock, tailLogsStarted, follow, session, startErr,
                   runPc, runErr, locals, delivered>>

\* r.stop(): r.logTail.Stop(); r.pw.Stop()
Stop(h) ==
    /\ pc[h] = "stop"
    /\ trace' = trace \o << [kind |-> "tailStop", inv |-> inv[h]],
                             [kind |-> "pwStop", inv |-> inv[h]] >>
    /\ pw' = "ended"
    /\ pc' = [pc EXCEPT ![h] = "return"]
    /\ UNCHANGED <<watchLock, tailLogsStarted, follow, session, startErr,
                   runPc, runErr, locals, delivered>>

\* variant: the condition type is not tested
RECURSIVE ConditionError_AnyType(_)
ConditionError_AnyType(cs) ==
    IF cs = <<>> THEN NilErr
    ELSE IF Head(cs).status = ConditionUnknown
         THEN NewError(FormatNoArgs(Head(cs).message))
         ELSE ConditionError_AnyType(Tail(cs))

\* the loop over pod.Status.Conditions of the default branch
RECURSIVE ConditionError(_)
ConditionError(cs) ==
    IF cs = <<>> THEN NilErr
    ELSE IF /\ Head(cs).type \in {PodInitialized, ContainersReady}
            /\ Head(cs).status = ConditionUnknown
         THEN NewError(FormatNoArgs(Head(cs).message))
         ELSE ConditionError(Tail(cs))

\* variant: the default branch calls stop() before it returns
Default_Stops(h) ==
    /\ pc[h] = "switch"
    /\ pod[h].phase \notin {PodRunning, PodFailed, PodSucceeded}
    /\ trace' = Append(trace, [kind |-> "msg", inv |-> inv[h],
                               text |-> MsgState(pod[h].name, pod[h].phase)])
    /\ err' = [err EXCEPT ![h] = ConditionError(pod[h].conditions)]
    /\ pc' = [pc EXCEPT ![h] = "stop"]
    /\ UNCHANGED <<watchLock, tailLogsStarted, follow, session, pw, startErr,
                   runPc, runErr, pod, inv, br, idx, msg, delivered>>

\* default: fmt.Fprintf(..., "Pod '%s' is in state %q...\n", ...); for ...
Default(h) ==
    /\ pc[h] = "switch"
    /\ pod[h].phase \notin {PodRunning, PodFailed, PodSucceeded}
    /\ trace' = Append(trace, [kind |-> "msg", inv |-> inv[h],
                               text |-> MsgState(pod[h].name, pod[h].phase)])
    /\ err' = [err EXCEPT ![h] = ConditionError(pod[h].conditions)]
    /\ pc' = [pc EXCEPT ![h] = "return"]
    /\ UNCHANGED <<watchLock, tailLogsStarted, follow, session, pw, startErr,
                   runPc, runErr, pod, inv, br, idx, msg, delivered>>

\* variant: the handler returns without unlocking
Unlocked_Kept(h) == h

\* the lock state the deferred r.watchLock.Unlock() leaves
Unlocked(h) == Free

\* return; the deferred Unlock runs; a non-nil error ends the watch
Return(h) ==
    /\ pc[h] = "return"
    /\ trace' = Append(trace, [kind |-> "return", inv |-> inv[h], err |-> err[h]])
    /\ watchLock' = Unlocked(h)
    /\ IF ~err[h].nil /\ startErr.nil
       THEN /\ startErr' = err[h]
            /\ pw' = "ended"
       ELSE /\ startErr' = startErr
            /\ pw' = pw
    /\ pc' = [pc EXCEPT ![h] = "idle"]
    /\ pod' = [pod EXCEPT ![h] = NoPod]
    /\ inv' = [inv EXCEPT ![h] = 0]
    /\ br' = [br EXCEPT ![h] = NoBuildRun]
    /\ idx' = [idx EXCEPT ![h] = 0]
    /\ msg' = [msg EXCEPT ![h] = <<>>]
    /\ err' = [err EXCEPT ![h] = NilErr]
    /\ UNCHANGED <<tailLogsStarted, follow, session, runPc, runErr, delivered>>

onEvent(h) ==
    \/ Lock(h)
    \/ Sleep(h)
    \/ TailLogsRange(h)
    \/ TailLogsMark(h)
    \/ TailLogsStart(h)
    \/ Failed(h)
    \/ Succeeded(h)
    \/ Stop(h)
    \/ Default(h)
    \/ Return(h)

Run == RunLock \/ RunCreate \/ RunSetup \/ RunUnlock \/ RunReturn

Next ==
    \/ Run
    \/ \E h \in Handlers, p \in Pods : Deliver(h, p)
    \/ \E h \in Handlers : onEvent(h)

Spec == Init /\ [][Next]_vars

\* the steps of the program's own goroutines (the watcher's deliveries are
\* the environment's)
Program == Run \/ \E h \in Handlers : onEvent(h)

\* As long as some goroutine of the program can take a step, one of them
\* eventually does.  Fair scheduling of every goroutine together with the
\* hand-off of sync.Mutex to blocked goroutines implies this.
FairSpec == Spec /\ WF_vars(Program)

(* ----------------------------------------------------- reading the trace *)
Entries(k) == {i \in 1..Len(trace) : trace[i].kind = k}
EntriesOf(k, n) == {i \in Entries(k) : trace[i].inv = n}
Returned == {trace[i].inv : i \in Entries("return")}
RetOf(n) == trace[CHOOSE i \in EntriesOf("return", n) : TRUE].err
\* the messages invocation n wrote, in order
TextsOf(n) ==
    LET ms == SelectSeq(trace, LAMBDA e : e.kind = "msg" /\ e.inv = n)
    IN [i \in 1..Len(ms) |-> ms[i].text]
\* invocation n called stop() exactly once
StoppedOnce(n) ==
    /\ Cardinality(EntriesOf("tailStop", n)) = 1
    /\ Cardinality(EntriesOf("pwStop", n)) = 1
\* the phases of the invocations, in the order they entered the handler
RECURSIVE PhasesFrom(_)
PhasesFrom(k) ==
    IF k > Len(trace) THEN <<>>
    ELSE IF trace[k].kind = "enter" THEN <<trace[k].phase>> \o PhasesFrom(k + 1)
    ELSE PhasesFrom(k + 1)
Phased == PhasesFrom(1)
IsPrefix(s, t) == Len(s) <= Len(t) /\ s = SubSeq(t, 1, Len(s))
PhaseOf(n) == trace[CHOOSE i \in EntriesOf("enter", n) : TRUE].phase
HasUnknown(cs) ==
    \E k \in 1..Len(cs) :
        /\ cs[k].type \in {PodInitialized, ContainersReady}
        /\ cs[k].status = ConditionUnknown
\* the invocations standing at their return statement, by phase
AtReturn(ph) == {h \in Handlers : pc[h] = "return" /\ pod[h].phase \in ph}

(* --------------------------------------------------------------- claims *)
\* C1: over all Running events of a session, logTail.Start is requested at
\* most once per container name.
C1_StartOncePerContainer ==
    \A i \in Entries("tailStart") : \A j \in Entries("tailStart") :
        trace[i].container = trace[j].container => i = j

\* two Running events have been handled and every container is tailed
C1_Witness ==
    /\ Cardinality({n \in Returned : PhaseOf(n) = PodRunning}) >= 2
    /\ Cardinality(Entries("tailStart")) = 3

\* C2: whatever events are delivered in a session, stop() is called at most
\* once.
C2_StopAtMostOnce == Cardinality(Entries("tailStop")) <= 1

\* C3: when the events handled are Pending, Running, Succeeded in that order
\* and no pod has an Initialized/ContainersReady condition at Unknown, the
\* success message is written once and stop() is called once, both by the
\* Succeeded invocation only, and every invocation returns nil.
C3_Scenario ==
    /\ IsPrefix(Phased, <<PodPending, PodRunning, PodSucceeded>>)
    /\ \A i \in Entries("enter") : ~HasUnknown(trace[i].conditions)
C3_PendingRunningSucceeded ==
    C3_Scenario =>
        /\ \A i \in Entries("msg") :
              trace[i].text = MsgSucceeded(PodName) => trace[i].inv = 3
        /\ \A i \in Entries("tailStop") \cup Entries("pwStop") : trace[i].inv = 3
        /\ \A n \in Returned : RetOf(n).nil
        /\ \A n \in {1, 2} : n \in Returned =>
              /\ MsgSucceeded(PodName) \notin {trace[i].text : i \in EntriesOf("msg", n)}
              /\ EntriesOf("tailStop", n) = {}
        /\ 3 \in Returned =>
              /\ TextsOf(3) = <<MsgSucceeded(PodName)>>
              /\ StoppedOnce(3)
              /\ Cardinality(Entries("tailStop")) = 1
              /\ Cardinality(Entries("pwStop")) = 1

\* the three events have been handled
C3_Witness == C3_Scenario /\ Returned = {1, 2, 3}

\* C4: at most one onEvent invocation is between Lock and Unlock, the grace
\* period included, and concurrent Running events do not start a container's
\* tail twice.
InBody(h) == pc[h] \notin {"idle", "lock"}
C4_MutualExclusion ==
    /\ \A g \in Handlers : \A h \in Handlers : InBody(g) /\ InBody(h) => g = h
    /\ \A h \in Handlers : InBody(h) => watchLock = h
    /\ \A i \in Entries("tailStart") : \A j \in Entries("tailStart") :
          i # j => trace[i].container # trace[j].container

\* one Running event sleeps in the handler while another waits for the lock
C4_Witness ==
    \E g \in Handlers : \E h \in Handlers :
        /\ pc[g] = "switch" /\ pod[g].phase = PodRunning
        /\ pc[h] = "lock" /\ pod[h] = pod[g]

\* C5: every delivered invocation returns, again and again, and an
\* invocation that is not in the handler body does not hold watchLock.
C5_NoDeadlock ==
    /\ \A h \in Handlers : []<>(pc[h] = "idle")
    /\ [](\A h \in Handlers : pc[h] \in {"idle", "lock"} => watchLock # h)

\* an invocation has returned an error while another invocation waits
C5_Witness ==
    /\ \E n \in Returned : ~RetOf(n).nil
    /\ \E h \in Handlers : pc[h] = "lock"
    /\ watchLock = Free

\* C6: a Failed event whose re-fetch succeeds and reports canceled has, at
\* its return, written the canceled message and called stop(), and returns
\* nil, whatever the deletion markers.
C6_Canceled ==
    \A h \in AtReturn({PodFailed}) :
        br[h].err.nil /\ br[h].canceled =>
            /\ TextsOf(inv[h]) = <<MsgCanceled(buildRunName)>>
            /\ StoppedOnce(inv[h])
            /\ err[h].nil

\* a canceled BuildRun with both deletion markers present is at its return
C6_Witness ==
    \E h \in AtReturn({PodFailed}) :
        /\ br[h].err.nil /\ br[h].canceled
        /\ br[h].deleted /\ pod[h].deleted

C8_FetchFailedReturnsNil ==
    \A h \in AtReturn({PodFailed}) :
        ~br[h].err.nil /\ pod[h].deleted =>
            /\ TextsOf(inv[h]) = <<MsgPodDeleted(pod[h].name)>>
            /\ StoppedOnce(inv[h])
            /\ err[h].nil

\* C8 (amended): when the re-fetch fails and the pod carries a deletion
\* marker, the pod-deleted message is written, stop() is called and the
\* error of the re-fetch is returned.
C8_FetchFailedReturnsFetchError ==
    \A h \in AtReturn({PodFailed}) :
        ~br[h].err.nil /\ pod[h].deleted =>
            /\ TextsOf(inv[h]) = <<MsgPodDeleted(pod[h].name)>>
            /\ StoppedOnce(inv[h])
            /\ err[h] = br[h].err
            /\ ~err[h].nil

\* a failed re-fetch for a deleted pod is at its return
C8_Witness ==
    \E h \in AtReturn({PodFailed}) : ~br[h].err.nil /\ pod[h].deleted

\* C9: a Failed event with no cancellation and no deletion marker, fetched
\* or not, has written the generic failure message and called stop(), and
\* returns a non-nil error.
C9_GenericFailure ==
    \A h \in AtReturn({PodFailed}) :
        ~br[h].canceled /\ ~br[h].deleted /\ ~pod[h].deleted =>
            /\ TextsOf(inv[h]) = <<MsgFailed(pod[h].name)>>
            /\ StoppedOnce(inv[h])
            /\ ~err[h].nil

\* the generic failure after a successful re-fetch is at its return
C9_Witness ==
    \E h \in AtReturn({PodFailed}) :
        /\ br[h].err.nil
        /\ ~br[h].canceled /\ ~br[h].deleted /\ ~pod[h].deleted

\* C10: an event in a phase other than Running, Failed, Succeeded writes the
\* status line; it returns an error whose text is the message of the first
\* Initialized/ContainersReady condition at Unknown, and nil when there is
\* none.
RECURSIVE FirstUnknown(_)
FirstUnknown(cs) ==
    IF Head(cs).type \in {PodInitialized, ContainersReady}
       /\ Head(cs).status = ConditionUnknown
    THEN Head(cs)
    ELSE FirstUnknown(Tail(cs))
C10_ConditionMessage ==
    \A h \in AtReturn(Phases \ {PodRunning, PodFailed, PodSucceeded}) :
        /\ TextsOf(inv[h]) = <<MsgState(pod[h].name, pod[h].phase)>>
        /\ IF HasUnknown(pod[h].conditions)
           THEN /\ ~err[h].nil
                /\ err[h].text = FirstUnknown(pod[h].conditions).message
           ELSE err[h].nil

\* C11: a handler is in its body only after Run has finished the session
\* setup and released watchLock, with ioStreams, buildRunName, shpClientset
\* and pw assigned; from the release on, Run changes none of them.
SetupDone == runPc \in {"start", "returned"}
C11_SetupBeforeHandler ==
    /\ [](\A h \in Handlers : InBody(h) =>
            /\ SetupDone
            /\ ioStreams /\ shpClientset
            /\ buildRunName = GeneratedName
            /\ pw # "nil")
    /\ [][SetupDone =>
            /\ UNCHANGED session
            /\ pw' # pw => \E h \in Handlers : pc[h] \in {"stop", "return"}]_vars

\* a handler is in its body while Run is blocked in pw.Start()
C11_Witness == runPc = "start" /\ \E h \in Handlers : InBody(h)

\* C12: with follow set and the watch started, Run returns only after a
\* terminal branch of the handler has invoked stop(), whichever way the watch
\* ends, a condition error of the default branch included.
WatchStarted == runPc = "returned" /\ pw # "nil"
NoMonitoring ==
    /\ pw = "nil"
    /\ delivered = 0
    /\ \A h \in Handlers : pc[h] = "idle"
    /\ DOMAIN tailLogsStarted = {}
    /\ \A i \in 1..Len(trace) :
          trace[i].kind \notin {"enter", "tailStart", "tailStop", "pwStop", "return"}
C13_NoMonitoring ==
    /\ (~follow \/ runErr = CreateError) => NoMonitoring
    /\ (~follow /\ runPc = "returned" /\ runErr.nil) =>
          trace = << [kind |-> "msg", inv |-> 0,
                      text |-> MsgCreated(GeneratedName, BuildName)] >>

\* Run has returned nil without following, after a successful Create
C13_Witness == ~follow /\ runPc = "returned" /\ runErr.nil /\ Len(trace) = 1

\* C14: the tail Start requests of one Running event are the pod's
\* init-containers in declared order followed by its containers in declared
\* order, without the names already in the registry and with a repeated name
\* taken at its first occurrence only; each request carries the pod's
\* namespace and name, and the registry entry of a container is written
\* before its Start request is issued.
RECURSIVE NotYetStarted(_, _)
NotYetStarted(cs, seen) ==
    IF cs = <<>> THEN <<>>
    ELSE IF Head(cs) \in seen THEN NotYetStarted(Tail(cs), seen)
    ELSE <<Head(cs)>> \o NotYetStarted(Tail(cs), seen \cup {Head(cs)})
StartsOf(n) ==
    LET ss == SelectSeq(trace, LAMBDA e : e.kind = "tailStart" /\ e.inv = n)
    IN [i \in 1..Len(ss) |-> ss[i].container]
StartedBefore(n) ==
    {trace[i].container : i \in {j \in Entries("tailStart") : trace[j].inv # n}}
C14_StartOrder ==
    /\ [](\A h \in AtReturn({PodRunning}) :
            /\ StartsOf(inv[h]) =
                 NotYetStarted(pod[h].spec.initContainers \o pod[h].spec.containers,
                               StartedBefore(inv[h]))
            /\ \A i \in EntriesOf("tailStart", inv[h]) :
                 /\ trace[i].namespace = pod[h].namespace
                 /\ trace[i].pod = pod[h].name)
    /\ [][(Len(trace') > Len(trace) /\ trace'[Len(trace')].kind = "tailStart") =>
            /\ trace'[Len(trace')].container \in DOMAIN tailLogsStarted
            /\ tailLogsStarted[trace'[Len(trace')].container]]_vars

\* a Running event whose pod names a container twice has been handled, and
\* the repeated name was started once
C14_Witness ==
    \E h \in AtReturn({PodRunning}) :
        /\ pod[h].spec = SpecRepeat
        /\ StartsOf(inv[h]) = <<"i1", "c1">>

\* C15: for every combination of re-fetch result, cancellation and deletion
\* markers, a Failed event writes exactly one message, chosen by the
\* precedence canceled, then deleted, then generic failure, and calls stop().
CanceledCase(h) == br[h].err.nil /\ br[h].canceled
DeletedCase(h) == (br[h].err.nil /\ br[h].deleted) \/ pod[h].deleted
C15_FailedPrecedence ==
    \A h \in AtReturn({PodFailed}) :
        /\ Len(TextsOf(inv[h])) = 1
        /\ TextsOf(inv[h])[1] \in
             IF CanceledCase(h) THEN {MsgCanceled(GeneratedName)}
             ELSE IF DeletedCase(h)
                  THEN {MsgBuildRunDeleted(GeneratedName), MsgPodDeleted(pod[h].name)}
                  ELSE {MsgFailed(pod[h].name)}
        /\ StoppedOnce(inv[h])

\* the re-fetch failed for a pod without deletion marker
C15_Witness ==
    \E h \in AtReturn({PodFailed}) : ~br[h].err.nil /\ ~pod[h].deleted

\* C16: each phase branch has only its own effects: a Running event writes
\* no message, does not call stop() and returns nil; an event of any other
\* phase starts no tail and leaves tailLogsStarted as it is; an event of a
\* phase other than Running, Succeeded, Failed does not call stop().
NoStopBy(n) == EntriesOf("tailStop", n) = {} /\ EntriesOf("pwStop", n) = {}
BranchEffects ==
    /\ \A h \in AtReturn({PodRunning}) :
          /\ TextsOf(inv[h]) = <<>>
          /\ NoStopBy(inv[h])
          /\ err[h].nil
    /\ \A h \in AtReturn(Phases \ {PodRunning}) :
          EntriesOf("tailStart", inv[h]) = {}
    /\ \A h \in AtReturn(Phases \ {PodRunning, PodSucceeded, PodFailed}) :
          NoStopBy(inv[h])
C16_BranchFrames ==
    /\ []BranchEffects
    /\ [][tailLogsStarted' # tailLogsStarted =>
            \E h \in Handlers : watchLock = h /\ pod[h].phase = PodRunning]_vars

\* a default-phase event is at its return after an earlier Running event
\* has filled the registry
C16_Witness ==
    /\ DOMAIN tailLogsStarted # {}
    /\ AtReturn(Phases \ {PodRunning, PodSucceeded, PodFailed}) # {}

\* C17: stop() stops the log tailer first and the pod watcher second; once a
\* Succeeded or Failed event has been handled both have been told to stop,
\* and the terminal message was written before either Stop call.
TerminalHandled == {n \in Returned : PhaseOf(n) \in {PodSucceeded, PodFailed}}
C17_StopOrder ==
    /\ \A k \in Entries("pwStop") :
          /\ k > 1
          /\ trace[k - 1].kind = "tailStop"
          /\ trace[k - 1].inv = trace[k].inv
    /\ \A n \in TerminalHandled :
          /\ EntriesOf("msg", n) # {}
          /\ EntriesOf("tailStop", n) # {}
          /\ EntriesOf("pwStop", n) # {}
          /\ \A i \in EntriesOf("msg", n) :
                /\ \A j \in EntriesOf("tailStop", n) : i < j
                /\ \A j \in EntriesOf("pwStop", n) : i < j

\* a Succeeded event has been handled and its invocation has returned
C17_Witness == \E n \in TerminalHandled : PhaseOf(n) = PodSucceeded

\* C18: Run never returns while holding watchLock: on every exit path
\* (client error, Create error, follow false, watcher-construction error,
\* return after the watch) the lock taken at its start has been released.
C18_ReturnsUnlocked == runPc = "returned" => watchLock # RunOwner

\* C19: once stop() has been invoked no later invocation requests a tail
\* Start; a Running event delivered together with a Succeeded or Failed event
\* and handled after it starts no tail.
C19_NoStartAfterStop ==
    \A i \in Entries("tailStart") : \A j \in Entries("tailStop") : i < j

\* C20: outside tailLogs the keys of tailLogsStarted are exactly the
\* container names a tail Start has been requested for, every stored value is
\* true, and the registry only grows: no step, stop() included, removes or
\* resets an entry.
InTailLogs == \E h \in Handlers : pc[h] \in {"range", "mark", "start"}
StartedNames == {trace[i].container : i \in Entries("tailStart")}
C20_RegistryMatchesStarts ==
    /\ [](/\ ~InTailLogs => DOMAIN tailLogsStarted = StartedNames
          /\ \A c \in DOMAIN tailLogsStarted : tailLogsStarted[c] = TRUE)
    /\ [][/\ DOMAIN tailLogsStarted \subseteq DOMAIN tailLogsStarted'
          /\ \A c \in DOMAIN tailLogsStarted :
                tailLogsStarted'[c] = tailLogsStarted[c]]_vars

\* stop() has been called with tails started, and the registry still holds them
C20_Witness ==
    /\ ~InTailLogs
    /\ Entries("tailStop") # {}
    /\ Cardinality(DOMAIN tailLogsStarted) >= 2

TypeOK ==
    /\ watchLock \in {Free, RunOwner} \cup Handlers
    /\ pw \in {"nil", "watching", "ended"}
    /\ delivered \in 0..MaxEvents
====
